---- MODULE Spec2Model ----
(***************************************************************************)
(* Model of the hybrid scoring engine of semantic-property-matching:       *)
(* feature_encoder.py (numerical similarity), similarity.py (hybrid        *)
(* score) and matcher.py (cross product, ranking, top-k).                  *)
(*                                                                         *)
(* Python floats are modelled as exact rationals [k, n, d] (n/d in lowest  *)
(* terms, d > 0); None is a value of its own.  round(x, 2) is modelled as  *)
(* round-half-even on the exact rational; IEEE-754 representation error    *)
(* is not modelled.  inf, -inf and nan are floats with denominator 0.      *)
(***************************************************************************)
EXTENDS Integers, Sequences, FiniteSets, TLC

VARIABLES
    users_df,             \* compute_all_matches: the users table (a sequence of rows)
    properties_df,        \* the properties table
    top_k,                \* the parameter top_k
    model,                \* TextEmbedder.model: the embedding of each text
    user_embeddings,      \* embedder.encode(user_texts)
    property_embeddings,  \* embedder.encode(property_texts)
    encode_calls,         \* the number of texts of each embedder.encode call so far
    user_idx,             \* the outer loop's position
    results,              \* the list of records appended so far
    results_df,           \* the returned table
    pc,                   \* the position in compute_all_matches, or in a function call
    call,                 \* a call of one of the scoring functions: its arguments
    ret,                  \* and the value it returned
    run,                  \* the number of the call of compute_all_matches under way
    previous_run             \* what the call before it ended with

vars == <<users_df, properties_df, top_k, model, user_embeddings, property_embeddings, encode_calls, user_idx, results, results_df, pc, call, ret, run, previous_run>>

(***************************************************************************)
(* Python values                                                           *)
(***************************************************************************)
Abs(x) == IF x < 0 THEN -x ELSE x

RECURSIVE Gcd(_, _)
Gcd(a, b) == IF b = 0 THEN a ELSE Gcd(b, a % b)

\* Python's None
None == [k |-> "None", n |-> 0, d |-> 1]

\* the Python float n/d (d # 0), in lowest terms with a positive denominator
Float(n, d) ==
    LET s == IF d < 0 THEN -1 ELSE 1
        g == Gcd(Abs(n), Abs(d))
    IN  [k |-> "float", n |-> (s * n) \div g, d |-> (s * d) \div g]

Zero == Float(0, 1)
One == Float(1, 1)

\* a raised ZeroDivisionError, which propagates through the arithmetic that
\* consumes it up to the function's caller
ZeroDivisionError == [k |-> "ZeroDivisionError", n |-> 0, d |-> 1]
Raised(x) == x.k = "ZeroDivisionError"

\* the floats that are no rationals: inf (sign 1), -inf (sign -1) and nan,
\* kept apart from the rationals by a denominator of 0
Inf(sign) == [k |-> "float", n |-> sign, d |-> 0]
NaN == [k |-> "float", n |-> 0, d |-> 0]
IsFinite(x) == x.d # 0
IsNaN(x) == x.d = 0 /\ x.n = 0
Sgn(n) == IF n > 0 THEN 1 ELSE IF n < 0 THEN -1 ELSE 0
\* the place of a float among -inf < every rational < inf
OrderOf(x) == IF IsFinite(x) THEN 0 ELSE x.n

FNeg(x) == [x EXCEPT !.n = -x.n]
FAdd(x, y) ==
    IF Raised(x) THEN x ELSE IF Raised(y) THEN y
    ELSE IF IsFinite(x) /\ IsFinite(y) THEN Float(x.n * y.d + y.n * x.d, x.d * y.d)
    ELSE IF IsNaN(x) \/ IsNaN(y) THEN NaN
    ELSE IF IsFinite(x) THEN y
    ELSE IF IsFinite(y) \/ x = y THEN x
    ELSE NaN                                    \* inf + -inf
FSub(x, y) ==
    IF Raised(x) THEN x ELSE IF Raised(y) THEN y
    ELSE IF IsFinite(x) /\ IsFinite(y) THEN Float(x.n * y.d - y.n * x.d, x.d * y.d)
    ELSE FAdd(x, FNeg(y))
FMul(x, y) ==
    IF Raised(x) THEN x ELSE IF Raised(y) THEN y
    ELSE IF IsFinite(x) /\ IsFinite(y) THEN Float(x.n * y.n, x.d * y.d)
    ELSE IF Sgn(x.n) * Sgn(y.n) = 0 THEN NaN    \* nan * y, inf * 0
    ELSE Inf(Sgn(x.n) * Sgn(y.n))
FDiv(x, y) ==
    IF Raised(x) THEN x ELSE IF Raised(y) THEN y
    ELSE IF y.n = 0 /\ IsFinite(y) THEN ZeroDivisionError
    ELSE IF IsFinite(x) /\ IsFinite(y) THEN Float(x.n * y.d, x.d * y.n)
    ELSE IF IsNaN(x) \/ IsNaN(y) THEN NaN
    ELSE IF IsFinite(x) THEN Float(0, 1)        \* x / inf
    ELSE IF IsFinite(y) THEN Inf(Sgn(x.n) * Sgn(y.n))
    ELSE NaN                                    \* inf / inf
FAbs(x) ==
    IF Raised(x) THEN x
    ELSE IF IsFinite(x) THEN Float(Abs(x.n), x.d)
    ELSE [x EXCEPT !.n = Abs(x.n)]
\* a comparison with a nan is False
FLt(x, y) ==
    /\ ~Raised(x) /\ ~Raised(y) /\ ~IsNaN(x) /\ ~IsNaN(y)
    /\ IF IsFinite(x) /\ IsFinite(y) THEN x.n * y.d < y.n * x.d ELSE OrderOf(x) < OrderOf(y)
FLe(x, y) ==
    /\ ~Raised(x) /\ ~Raised(y) /\ ~IsNaN(x) /\ ~IsNaN(y)
    /\ IF IsFinite(x) /\ IsFinite(y) THEN x.n * y.d <= y.n * x.d ELSE OrderOf(x) <= OrderOf(y)
FGe(x, y) == FLe(y, x)
FGt(x, y) == FLt(y, x)
\* Python's max(a, b): b only when b > a
FMax(a, b) ==
    IF Raised(a) THEN a ELSE IF Raised(b) THEN b
    ELSE IF FGt(b, a) THEN b ELSE a

\* round-half-even of n/d (d > 0) to an integer
RoundHalfEven(n, d) ==
    LET q == n \div d
        r == n - q * d
    IN  IF 2 * r < d THEN q
        ELSE IF 2 * r > d THEN q + 1
        ELSE IF q % 2 = 0 THEN q ELSE q + 1

\* Python's round(x, 2)
Round2(x) ==
    IF Raised(x) \/ ~IsFinite(x) THEN x
    ELSE Float(RoundHalfEven(x.n * 100, x.d), 100)

(***************************************************************************)
(* config.py                                                               *)
(***************************************************************************)
TOP_K == 5
SEMANTIC_WEIGHT == Float(7, 10)
NUMERICAL_WEIGHT == Float(3, 10)
BUDGET_TOLERANCE == Float(20, 100)
BEDROOM_FLEX == Float(1, 1)
BATHROOM_FLEX == Float(1, 1)
LIVING_AREA_TOLERANCE == Float(15, 100)
USER_ID_COL == "User ID"
PROPERTY_ID_COL == "Property ID"

(***************************************************************************)
(* feature_encoder.py                                                      *)
(***************************************************************************)
\* a spreadsheet cell: a number, a missing value (None), a blank string,
\* a non-numeric string, a NaN or an infinity (float("inf"), "inf", "1e400")
NumCell(v) == [k |-> "num", v |-> v]
NoneCell == [k |-> "None", v |-> 0]
BlankCell == [k |-> "blank", v |-> 0]
TextCell == [k |-> "text", v |-> 0]
NanCell == [k |-> "nan", v |-> 0]
InfCell(sign) == [k |-> "inf", v |-> sign]

\* rows: functions from column names to cells
UserRowOf(budget, bedrooms, bathrooms, living_area) ==
    ("Budget" :> budget) @@ ("Bedrooms" :> bedrooms) @@ ("Bathrooms" :> bathrooms)
        @@ ("Living Area (sq ft)" :> living_area)

\* a users sheet without the living-area column
UserRowNoArea(budget, bedrooms, bathrooms) ==
    ("Budget" :> budget) @@ ("Bedrooms" :> bedrooms) @@ ("Bathrooms" :> bathrooms)

PropertyRowOf(price, bedrooms, bathrooms, living_area) ==
    ("Price" :> price) @@ ("Bedrooms" :> bedrooms) @@ ("Bathrooms" :> bathrooms)
        @@ ("Living Area (sq ft)" :> living_area)

_safe_float(value) ==
    IF value.k = "None" THEN None
    ELSE IF value.k = "blank" THEN None
    ELSE IF value.k = "text" THEN None      \* float() raises ValueError
    ELSE IF value.k = "nan" THEN None
    ELSE IF value.k = "inf" THEN Inf(value.v)  \* float() succeeds, no isinf test
    ELSE Float(value.v, 1)

\* a row is a function from column names to cells (a pandas Series or a
\* dict, both of which have .get); a missing key reads as None
_get_value(row, key) ==
    IF key \in DOMAIN row THEN _safe_float(row[key]) ELSE None

\* _tolerance_score without its guard for target == 0
_tolerance_score_no_zero_guard(target, actual, tolerance) ==
    IF target = None \/ actual = None THEN None
    ELSE IF tolerance = None \/ FLe(tolerance, Zero)
         THEN (IF target = actual THEN One ELSE Zero)
    ELSE LET diff_ratio == FDiv(FAbs(FSub(actual, target)), target)
         IN  IF FGe(diff_ratio, tolerance) THEN Zero
             ELSE FMax(Zero, FSub(One, FDiv(diff_ratio, tolerance)))

_tolerance_score(target, actual, tolerance) ==
    IF target = None \/ actual = None THEN None
    ELSE IF tolerance = None \/ FLe(tolerance, Zero)
         THEN (IF target = actual THEN One ELSE Zero)
    ELSE IF target = Zero
         THEN (IF actual = Zero THEN One ELSE Zero)
    ELSE LET diff_ratio == FDiv(FAbs(FSub(actual, target)), target)
         IN  IF FGe(diff_ratio, tolerance) THEN Zero
             ELSE FMax(Zero, FSub(One, FDiv(diff_ratio, tolerance)))

\* the default of the parameter near_score, which no caller overrides
NEAR_SCORE == Float(7, 10)

\* _flex_match_score with `diff < flexibility` in place of `diff <= flexibility`
_flex_match_score_strict_band(preferred, actual, flexibility) ==
    IF preferred = None \/ actual = None THEN None
    ELSE LET diff == FAbs(FSub(actual, preferred))
         IN  IF diff = Zero THEN One
             ELSE IF flexibility # None /\ FLt(diff, flexibility) THEN NEAR_SCORE
             ELSE Zero

_flex_match_score(preferred, actual, flexibility) ==
    IF preferred = None \/ actual = None THEN None
    ELSE LET diff == FAbs(FSub(actual, preferred))
         IN  IF diff = Zero THEN One
             ELSE IF flexibility # None /\ FLe(diff, flexibility) THEN NEAR_SCORE
             ELSE Zero

\* the list `scores` of compute_numerical_similarity: the defined feature
\* scores, in the order budget, bedrooms, bathrooms, living area
FeatureScores(user_row, property_row, budget_tolerance, bedroom_flex, bathroom_flex, living_area_tolerance) ==
    LET all == <<
            _tolerance_score(_get_value(user_row, "Budget"),
                             _get_value(property_row, "Price"),
                             budget_tolerance),
            _flex_match_score(_get_value(user_row, "Bedrooms"),
                              _get_value(property_row, "Bedrooms"),
                              bedroom_flex),
            _flex_match_score(_get_value(user_row, "Bathrooms"),
                              _get_value(property_row, "Bathrooms"),
                              bathroom_flex),
            _tolerance_score(_get_value(user_row, "Living Area (sq ft)"),
                             _get_value(property_row, "Living Area (sq ft)"),
                             living_area_tolerance) >>
    IN  SelectSeq(all, LAMBDA s : s # None)

RECURSIVE FSum(_)
FSum(s) == IF s = <<>> THEN Zero ELSE FAdd(Head(s), FSum(Tail(s)))

compute_numerical_similarity(user_row, property_row, budget_tolerance, bedroom_flex, bathroom_flex, living_area_tolerance) ==
    LET scores == FeatureScores(user_row, property_row, budget_tolerance,
                                bedroom_flex, bathroom_flex,
                                living_area_tolerance)
    IN  IF scores = <<>> THEN None
        ELSE Round2(FMul(FDiv(FSum(scores), Float(Len(scores), 1)),
                         Float(100, 1)))

(***************************************************************************)
(* similarity.py                                                           *)
(***************************************************************************)
\* HybridScore with the guard total_weight < 0 in place of total_weight <= 0
HybridScore_strict_guard(semantic_score, numerical_score, semantic_weight, numerical_weight) ==
    IF numerical_score = None THEN semantic_score
    ELSE LET total_weight == FAdd(semantic_weight, numerical_weight)
         IN  IF FLt(total_weight, Zero) THEN semantic_score
             ELSE Round2(FDiv(FAdd(FMul(semantic_score, semantic_weight),
                                   FMul(numerical_score, numerical_weight)),
                              total_weight))

\* HybridScore with `if not numerical_score` in place of `is None`: a
\* numerical score of 0 is taken for a missing one
HybridScore_falsy_numerical(semantic_score, numerical_score, semantic_weight, numerical_weight) ==
    IF numerical_score = None \/ numerical_score = Zero THEN semantic_score
    ELSE LET total_weight == FAdd(semantic_weight, numerical_weight)
         IN  IF FLe(total_weight, Zero) THEN semantic_score
             ELSE Round2(FDiv(FAdd(FMul(semantic_score, semantic_weight),
                                   FMul(numerical_score, numerical_weight)),
                              total_weight))

\* lines 46-54 of compute_similarity: the combination of the rounded
\* semantic score with the numerical score
HybridScore(semantic_score, numerical_score, semantic_weight, numerical_weight) ==
    IF numerical_score = None THEN semantic_score
    ELSE LET total_weight == FAdd(semantic_weight, numerical_weight)
         IN  IF FLe(total_weight, Zero) THEN semantic_score
             ELSE Round2(FDiv(FAdd(FMul(semantic_score, semantic_weight),
                                   FMul(numerical_score, numerical_weight)),
                              total_weight))

\* an embedding vector [x, y] together with its Euclidean norm, kept with
\* the vector so that the cosine is a rational
Vector(x, y, norm) == [x |-> x, y |-> y, norm |-> norm]

\* lines 36-43 of compute_similarity: round(cosine_similarity * 100, 2)
SemanticScore(user_embedding, property_embedding) ==
    LET dot == user_embedding.x * property_embedding.x + user_embedding.y * property_embedding.y
        semantic_similarity == Float(dot, user_embedding.norm * property_embedding.norm)
    IN  Round2(FMul(semantic_similarity, Float(100, 1)))

compute_similarity(user_embedding, property_embedding, numerical_score, semantic_weight, numerical_weight) ==
    HybridScore(SemanticScore(user_embedding, property_embedding), numerical_score, semantic_weight, numerical_weight)

(***************************************************************************)
(* text_builder.py: the rendered sentence is modelled by the tuple of the  *)
(* values the template interpolates                                        *)
(***************************************************************************)
user_to_text(user_row) ==
    <<"user", user_row["Budget"], user_row["Bedrooms"], user_row["Bathrooms"],
      user_row["Qualitative Description"]>>

property_to_text(property_row) ==
    <<"property", property_row["Price"], property_row["Bedrooms"], property_row["Bathrooms"],
      property_row["Living Area (sq ft)"], property_row["Qualitative Description"]>>

(***************************************************************************)
(* matcher.py                                                              *)
(***************************************************************************)
\* sort_values with ascending=[True, True]: the lowest scores come first
Before_ascending_score(a, b) ==
    \/ a.user_id < b.user_id
    \/ a.user_id = b.user_id /\ FLt(a.match_score, b.match_score)

\* sort_values("match_score", ascending=False): the user_id is no sort key
Before_score_only(a, b) == FGt(a.match_score, b.match_score)

\* DataFrame.sort_values(["user_id", "match_score"], ascending=[True, False]):
\* a sorts strictly before b
Before(a, b) ==
    \/ a.user_id < b.user_id
    \/ a.user_id = b.user_id /\ FGt(a.match_score, b.match_score)

\* an unstable sort: x goes in front of the rows that tie with it
Insert_before_equal(sorted, x) ==
    LET k == Cardinality({i \in 1..Len(sorted) : Before(sorted[i], x)})
    IN  SubSeq(sorted, 1, k) \o <<x>> \o SubSeq(sorted, k + 1, Len(sorted))

\* a sort on several columns is pandas' lexsort, which is stable: x goes
\* behind every row that does not sort strictly after it
Insert(sorted, x) ==
    LET k == Cardinality({i \in 1..Len(sorted) : ~Before(x, sorted[i])})
    IN  SubSeq(sorted, 1, k) \o <<x>> \o SubSeq(sorted, k + 1, Len(sorted))

RECURSIVE SortValues(_)
SortValues(rows) ==
    IF rows = <<>> THEN <<>>
    ELSE Insert(SortValues(SubSeq(rows, 1, Len(rows) - 1)), rows[Len(rows)])

\* the rows at the index set kept, in their order
Take(rows, kept) ==
    [k \in 1..Cardinality(kept) |->
        rows[CHOOSE i \in kept : Cardinality({j \in kept : j <= i}) = k]]

\* groupby("user_id").head(n): the first n rows of each group (all but the
\* last -n for a negative n), in the order of the rows
GroupHead(rows, n) ==
    LET cumcount(i) == Cardinality({j \in 1..(i - 1) : rows[j].user_id = rows[i].user_id})
        size(i) == Cardinality({j \in 1..Len(rows) : rows[j].user_id = rows[i].user_id})
    IN  Take(rows, {i \in 1..Len(rows) :
                        IF n >= 0 THEN cumcount(i) < n ELSE cumcount(i) < size(i) + n})

\* lines 47-62: the inner loop for the user at user_idx, the records it appends
PairRecords(idx) ==
    LET user_row == users_df[idx]
        user_id == user_row[USER_ID_COL].v
    IN  [prop_idx \in 1..Len(property_embeddings) |->
            LET property_row == properties_df[prop_idx]
                numerical_score == compute_numerical_similarity(user_row, property_row,
                                       BUDGET_TOLERANCE, BEDROOM_FLEX, BATHROOM_FLEX,
                                       LIVING_AREA_TOLERANCE)
            IN  [user_id |-> user_id,
                 property_id |-> property_row[PROPERTY_ID_COL].v,
                 match_score |-> compute_similarity(user_embeddings[idx],
                                     property_embeddings[prop_idx], numerical_score,
                                     SEMANTIC_WEIGHT, NUMERICAL_WEIGHT)]]

\* TextEmbedder.encode: one vector per text, in the order of the texts
encode(texts) == [i \in 1..Len(texts) |-> model[texts[i]]]

\* users_df.apply(user_to_text, axis=1).tolist()
UserTexts(df) == [i \in 1..Len(df) |-> user_to_text(df[i])]

\* properties_df.apply(property_to_text, axis=1).tolist()
PropertyTexts(df) == [i \in 1..Len(df) |-> property_to_text(df[i])]

(***************************************************************************)
(* The inputs of a run                                                     *)
(***************************************************************************)
MaxUsers == 2
MaxProps == 2
MaxTopK == 2
\* the calls of compute_all_matches on one set of arguments
MaxRuns == 2

DescriptionCell(d) == [k |-> "text", v |-> d]

\* the users sheet the tables are drawn from: user i
UserCatalog(i) ==
    (USER_ID_COL :> NumCell(i))
    @@ (IF i % 2 = 1
        THEN UserRowOf(NumCell(100), NumCell(3), NumCell(2), NoneCell)
        ELSE UserRowOf(TextCell, NumCell(4), NoneCell, NumCell(1000)))
    @@ ("Qualitative Description" :> DescriptionCell(i % 2))

\* the properties sheet: property i.  Properties 1 and 2 score alike on the
\* features user 1 states and differently on those user 2 states
PropertyCatalog(i) ==
    (PROPERTY_ID_COL :> NumCell(i))
    @@ (CASE i = 1 -> PropertyRowOf(NumCell(95), NumCell(3), NumCell(2), NumCell(1000))
          [] i = 2 -> PropertyRowOf(NumCell(105), NumCell(3), NumCell(2), NumCell(1100))
          [] i = 3 -> PropertyRowOf(NumCell(130), NumCell(4), NumCell(2), NumCell(1100))
          [] OTHER -> PropertyRowOf(NumCell(100), NumCell(5), NoneCell, NoneCell))
    @@ ("Qualitative Description" :> DescriptionCell(i))

\* the sequences without repetition over 1..n
InjectiveSeqs(n) ==
    {s \in UNION {[1..k -> 1..n] : k \in 0..n} :
        \A i, j \in DOMAIN s : i # j => s[i] # s[j]}

UserTables == {[i \in DOMAIN s |-> UserCatalog(s[i])] : s \in InjectiveSeqs(MaxUsers)}
PropertyTables == {[i \in DOMAIN s |-> PropertyCatalog(s[i])] : s \in InjectiveSeqs(MaxProps)}

\* the texts a run embeds
Texts(users, properties) ==
    {user_to_text(users[i]) : i \in DOMAIN users}
    \cup {property_to_text(properties[i]) : i \in DOMAIN properties}

Vectors == {Vector(1, 0, 1), Vector(3, 4, 5)}

(***************************************************************************)
(* Calls of the scoring functions on their own: the arguments are drawn    *)
(* from bounded sets, the call returns in one step.                        *)
(***************************************************************************)
MaxAmount == 8

NoCall == [fn |-> "none"]
NoRun == [outcome |-> "none", results_df |-> <<>>]

Amounts == {None} \cup {Float(i, 1) : i \in -MaxAmount..MaxAmount}
Tolerances == {None} \cup {Float(t, 100) : t \in {-10, 0, 5, 15, 20, 50, 100, 250}}

ToleranceCalls ==
    [fn : {"_tolerance_score"}, target : Amounts, actual : Amounts, tolerance : Tolerances]

Flexibilities == {None} \cup {Float(f, 2) : f \in {-2, 0, 1, 2, 3, 4}}

FlexCalls ==
    [fn : {"_flex_match_score"}, preferred : Amounts, actual : Amounts, flexibility : Flexibilities]

BudgetCells == {NoneCell, BlankCell, TextCell, NanCell, InfCell(1), NumCell(-100), NumCell(0), NumCell(100)}
PriceCells == {NoneCell, InfCell(1), InfCell(-1), NumCell(0), NumCell(95), NumCell(100), NumCell(130)}
UserBedroomCells == {NoneCell, NumCell(3)}
PropertyBedroomCells == {NoneCell, NumCell(3), NumCell(4), NumCell(5)}
UserBathroomCells == {NoneCell, NumCell(2)}
PropertyBathroomCells == {TextCell, NumCell(2), NumCell(4)}
UserAreaCells == {NoneCell, NumCell(1000)}
PropertyAreaCells == {NoneCell, NumCell(1000), NumCell(1100), NumCell(1200)}

UserRowSamples ==
    {UserRowOf(b, bd, bt, a) : b \in BudgetCells, bd \in UserBedroomCells, bt \in UserBathroomCells, a \in UserAreaCells}
    \cup {UserRowNoArea(b, bd, bt) : b \in BudgetCells, bd \in UserBedroomCells, bt \in UserBathroomCells}

PropertyRowSamples ==
    {PropertyRowOf(p, bd, bt, a) : p \in PriceCells, bd \in PropertyBedroomCells, bt \in PropertyBathroomCells, a \in PropertyAreaCells}

NumericalCalls ==
    [fn : {"compute_numerical_similarity"}, user_row : UserRowSamples, property_row : PropertyRowSamples]

\* scores in hundredths: the low and the high end of [0, 100] and some in between
ScoreEdge == 2
ScoreSamples ==
    {Float(i, 100) : i \in (0..ScoreEdge) \cup ((10000 - ScoreEdge)..10000) \cup {5000, 8000, 9167}}
SemanticSamples == ScoreSamples \cup {Float(-6000, 100)}
NumericalSamples == {None} \cup ScoreSamples \cup {Float(60000, 100)}
WeightSamples == {Float(w, 10) : w \in {-3, 0, 3, 7, 10, 20}}

SimilarityCalls ==
    [fn : {"compute_similarity"}, semantic_score : SemanticSamples, numerical_score : NumericalSamples,
     semantic_weight : WeightSamples, numerical_weight : WeightSamples]

\* compute_all_matches is not running
Idle ==
    /\ users_df = <<>>
    /\ properties_df = <<>>
    /\ top_k = TOP_K
    /\ model = <<>>
    /\ user_embeddings = <<>>
    /\ property_embeddings = <<>>
    /\ encode_calls = <<>>
    /\ user_idx = 0
    /\ results = <<>>
    /\ results_df = <<>>
    /\ run = 1
    /\ previous_run = NoRun

InitFn ==
    /\ Idle
    /\ pc = "call"
    /\ ret = None
    /\ \/ call \in ToleranceCalls
       \/ call \in FlexCalls
       \/ call \in NumericalCalls
       \/ call \in SimilarityCalls

Returns(value) ==
    /\ pc' = "return"
    /\ ret' = value
    /\ UNCHANGED <<users_df, properties_df, top_k, model, user_embeddings, property_embeddings, encode_calls, user_idx, results, results_df, call, run, previous_run>>

Call_tolerance_score ==
    /\ pc = "call"
    /\ call.fn = "_tolerance_score"
    /\ Returns(_tolerance_score(call.target, call.actual, call.tolerance))

Call_flex_match_score ==
    /\ pc = "call"
    /\ call.fn = "_flex_match_score"
    /\ Returns(_flex_match_score(call.preferred, call.actual, call.flexibility))

Call_compute_numerical_similarity ==
    /\ pc = "call"
    /\ call.fn = "compute_numerical_similarity"
    /\ Returns(compute_numerical_similarity(call.user_row, call.property_row, BUDGET_TOLERANCE, BEDROOM_FLEX, BATHROOM_FLEX, LIVING_AREA_TOLERANCE))

Call_compute_similarity ==
    /\ pc = "call"
    /\ call.fn = "compute_similarity"
    /\ Returns(HybridScore(call.semantic_score, call.numerical_score, call.semantic_weight, call.numerical_weight))

NextFn ==
    \/ Call_tolerance_score
    \/ Call_flex_match_score
    \/ Call_compute_numerical_similarity
    \/ Call_compute_similarity

SpecFn == InitFn /\ [][NextFn]_vars

(***************************************************************************)
(* compute_all_matches                                                     *)
(***************************************************************************)
Init ==
    /\ users_df \in UserTables
    /\ properties_df \in PropertyTables
    /\ top_k \in (1..MaxTopK) \cup {TOP_K}
    /\ model \in [Texts(users_df, properties_df) -> Vectors]
    /\ user_embeddings = <<>>
    /\ property_embeddings = <<>>
    /\ encode_calls = <<>>
    /\ user_idx = 0
    /\ results = <<>>
    /\ results_df = <<>>
    /\ pc = "start"
    /\ call = NoCall
    /\ ret = None
    /\ run = 1
    /\ previous_run = NoRun

\* Encode without `results = []`: the list outlives the call
Encode_keeps_results ==
    /\ pc = "start"
    /\ LET user_texts == UserTexts(users_df)
           property_texts == PropertyTexts(properties_df)
       IN  /\ user_embeddings' = encode(user_texts)
           /\ property_embeddings' = encode(property_texts)
           /\ encode_calls' = <<Len(user_texts), Len(property_texts)>>
    /\ user_idx' = 1
    /\ pc' = "loop"
    /\ UNCHANGED <<users_df, properties_df, top_k, model, results, results_df, call, ret, run, previous_run>>

\* lines 30-40: the texts of the two tables are embedded, one encode call each
Encode ==
    /\ pc = "start"
    /\ LET user_texts == UserTexts(users_df)
           property_texts == PropertyTexts(properties_df)
       IN  /\ user_embeddings' = encode(user_texts)
           /\ property_embeddings' = encode(property_texts)
           /\ encode_calls' = <<Len(user_texts), Len(property_texts)>>
    /\ results' = <<>>
    /\ user_idx' = 1
    /\ pc' = "loop"
    /\ UNCHANGED <<users_df, properties_df, top_k, model, results_df, call, ret, run, previous_run>>

\* ScoreUser with the two texts of every pair embedded inside the inner loop
ScoreUser_encodes_per_pair ==
    /\ pc = "loop"
    /\ user_idx <= Len(user_embeddings)
    /\ results' = results \o PairRecords(user_idx)
    /\ encode_calls' = encode_calls \o [prop_idx \in 1..Len(property_embeddings) |-> 2]
    /\ user_idx' = user_idx + 1
    /\ UNCHANGED <<users_df, properties_df, top_k, model, user_embeddings, property_embeddings, results_df, pc, call, ret, run, previous_run>>

\* lines 43-62: one iteration of the outer loop, with its whole inner loop
ScoreUser ==
    /\ pc = "loop"
    /\ user_idx <= Len(user_embeddings)
    /\ results' = results \o PairRecords(user_idx)
    /\ user_idx' = user_idx + 1
    /\ UNCHANGED <<users_df, properties_df, top_k, model, user_embeddings, property_embeddings, encode_calls, results_df, pc, call, ret, run, previous_run>>

\* lines 64-75: pd.DataFrame([]) has no columns, so that sort_values raises
\* KeyError('user_id') when no record was appended
Rank ==
    /\ pc = "loop"
    /\ user_idx > Len(user_embeddings)
    /\ IF results = <<>>
       THEN /\ pc' = "error"
            /\ results_df' = results_df
       ELSE /\ pc' = "done"
            /\ results_df' = GroupHead(SortValues(results), top_k)
    /\ UNCHANGED <<users_df, properties_df, top_k, model, user_embeddings, property_embeddings, encode_calls, user_idx, results, call, ret, run, previous_run>>

\* the caller calls compute_all_matches a second time with the same
\* arguments; the locals of the new call are assigned before they are read
CallAgain ==
    /\ pc \in {"done", "error"}
    /\ run < MaxRuns
    /\ previous_run' = [outcome |-> pc, results_df |-> results_df]
    /\ run' = run + 1
    /\ pc' = "start"
    /\ UNCHANGED <<users_df, properties_df, top_k, model, user_embeddings, property_embeddings, encode_calls, user_idx, results, results_df, call, ret>>

Next ==
    \/ Encode
    \/ ScoreUser
    \/ Rank
    \/ CallAgain

Spec == Init /\ [][Next]_vars

(***************************************************************************)
(* Properties of compute_all_matches (checked under Spec)                  *)
(***************************************************************************)
Finished == pc \in {"done", "error"}
Min(a, b) == IF a <= b THEN a ELSE b
UserIds == {users_df[i][USER_ID_COL].v : i \in DOMAIN users_df}
RecordsOf(uid) == {m \in DOMAIN results_df : results_df[m].user_id = uid}
InOutput(uid, pid) ==
    \E m \in DOMAIN results_df :
        results_df[m].user_id = uid /\ results_df[m].property_id = pid

\* C1: for every user_id of the users input, the output of
\* compute_all_matches contains exactly min(top_k, count(properties))
\* records for that user_id, for every users table, properties table and
\* top_k.
C1_CountPerUser ==
    Finished =>
        \A uid \in UserIds :
            /\ pc = "done"
            /\ Cardinality(RecordsOf(uid)) = Min(top_k, Len(properties_df))

\* C2: every pair of the cross product that is absent from the output has a
\* match_score less than or equal to that of every record kept for its user,
\* and every output pair is a pair of the input cross product.
C2_TopScoresKept ==
    pc = "done" =>
        /\ \A m \in DOMAIN results_df :
              \E i \in DOMAIN users_df, j \in DOMAIN properties_df :
                  /\ results_df[m].user_id = users_df[i][USER_ID_COL].v
                  /\ results_df[m].property_id = properties_df[j][PROPERTY_ID_COL].v
        /\ \A i \in DOMAIN users_df, j \in DOMAIN properties_df :
              LET pair == PairRecords(i)[j]
              IN  ~InOutput(pair.user_id, pair.property_id) =>
                      \A m \in RecordsOf(pair.user_id) :
                          FLe(pair.match_score, results_df[m].match_score)

\* a run has returned in which top_k cut away a pair that scores strictly
\* less than a record kept for its user
C2_Witness ==
    /\ pc = "done"
    /\ top_k < Len(properties_df)
    /\ \E i \in DOMAIN users_df, j \in DOMAIN properties_df :
          LET pair == PairRecords(i)[j]
          IN  /\ ~InOutput(pair.user_id, pair.property_id)
              /\ \E m \in RecordsOf(pair.user_id) :
                    FLt(pair.match_score, results_df[m].match_score)

\* C3: the output rows are ordered by user_id ascending and, within a
\* user_id, by match_score non-increasing, so that the records of one user
\* are contiguous, whatever the order of the users in the input.
C3_OutputOrdered ==
    pc = "done" =>
        \A m, n \in DOMAIN results_df :
            m < n =>
                /\ results_df[m].user_id <= results_df[n].user_id
                /\ results_df[m].user_id = results_df[n].user_id
                      => FGe(results_df[m].match_score, results_df[n].match_score)

\* a run has returned whose users came in descending user_id order and whose
\* output holds both users, one of them with two different scores
C3_Witness ==
    /\ pc = "done"
    /\ Len(users_df) = 2
    /\ users_df[1][USER_ID_COL].v > users_df[2][USER_ID_COL].v
    /\ results_df[1].user_id < results_df[Len(results_df)].user_id
    /\ \E m, n \in DOMAIN results_df :
          /\ m < n
          /\ results_df[m].user_id = results_df[n].user_id
          /\ FGt(results_df[m].match_score, results_df[n].match_score)

\* C4: when properties is empty, compute_all_matches completes and returns
\* zero records for every user; when users is empty, it completes and
\* returns an empty result.
C4_EmptyInputsComplete ==
    Finished =>
        /\ properties_df = <<>> =>
              pc = "done" /\ \A uid \in UserIds : RecordsOf(uid) = {}
        /\ users_df = <<>> =>
              pc = "done" /\ results_df = <<>>

PropertyIndex(pid) ==
    CHOOSE j \in DOMAIN properties_df : properties_df[j][PROPERTY_ID_COL].v = pid

\* C14: within one user's records, those of equal match_score appear in the
\* order in which their properties were enumerated, and of a tie that
\* straddles the top_k cut the earlier-enumerated records are kept.
C14_TiesStable ==
    pc = "done" =>
        /\ \A m, n \in DOMAIN results_df :
              (/\ m < n
               /\ results_df[m].user_id = results_df[n].user_id
               /\ results_df[m].match_score = results_df[n].match_score)
              => PropertyIndex(results_df[m].property_id) < PropertyIndex(results_df[n].property_id)
        /\ \A i \in DOMAIN users_df, j \in DOMAIN properties_df :
              LET pair == PairRecords(i)[j]
              IN  ~InOutput(pair.user_id, pair.property_id) =>
                      \A m \in RecordsOf(pair.user_id) :
                          results_df[m].match_score = pair.match_score
                          => PropertyIndex(results_df[m].property_id) < j

\* a run with top_k = 1 has returned in which a user's two properties tie:
\* the one enumerated first, which has the higher property id, is kept
C14_Witness ==
    /\ pc = "done"
    /\ top_k = 1
    /\ Len(properties_df) = 2
    /\ properties_df[1][PROPERTY_ID_COL].v > properties_df[2][PROPERTY_ID_COL].v
    /\ \E i \in DOMAIN users_df :
          LET pairs == PairRecords(i)
          IN  /\ pairs[1].match_score = pairs[2].match_score
              /\ InOutput(pairs[1].user_id, pairs[1].property_id)
              /\ ~InOutput(pairs[2].user_id, pairs[2].property_id)

RECURSIVE Total(_)
Total(counts) == IF counts = <<>> THEN 0 ELSE Head(counts) + Total(Tail(counts))

\* C15: in a run of compute_all_matches the embedder is called once on the
\* U user texts and once on the P property texts, before the pairwise loop,
\* and not again in the loop: U + P texts are embedded, whatever the number
\* of pairs scored.
C15_EmbeddingsComputedOnce ==
    pc \in {"loop", "done", "error"} =>
        /\ encode_calls = <<Len(users_df), Len(properties_df)>>
        /\ Total(encode_calls) = Len(users_df) + Len(properties_df)
        /\ Len(user_embeddings) = Len(users_df)
        /\ Len(property_embeddings) = Len(properties_df)

\* a run over 2 users and 1 property has scored its 2 pairs and returned,
\* having embedded 3 texts
C15_Witness ==
    /\ pc = "done"
    /\ Len(users_df) = 2
    /\ Len(properties_df) = 1
    /\ Len(results) = 2
    /\ Total(encode_calls) = 3

(***************************************************************************)
(* Properties of the scoring functions (checked under SpecFn)              *)
(***************************************************************************)
Hundred == Float(100, 1)
Returned(fn) == pc = "return" /\ call.fn = fn
InRange(x, lo, hi) == x # None /\ ~Raised(x) /\ FLe(lo, x) /\ FLe(x, hi)

\* C5: the hybrid score is defined and in [0,100] for every semantic score
\* in [0,100], every numerical score that is None or in [0,100], and every
\* pair of weights.
C5_HybridScoreInRange ==
    (/\ Returned("compute_similarity")
     /\ InRange(call.semantic_score, Zero, Hundred)
     /\ (call.numerical_score = None \/ InRange(call.numerical_score, Zero, Hundred)))
    => InRange(ret, Zero, Hundred)

\* C6: compute_similarity returns the semantic score unchanged whenever the
\* numerical score is None, and whenever semantic_weight + numerical_weight
\* <= 0; no ZeroDivisionError is raised in either case.
C6_SemanticOnlyFallback ==
    (/\ Returned("compute_similarity")
     /\ (\/ call.numerical_score = None
         \/ FLe(FAdd(call.semantic_weight, call.numerical_weight), Zero)))
    => ret = call.semantic_score

\* a call with a numerical score and weights that sum to zero has returned
C6_Witness ==
    /\ Returned("compute_similarity")
    /\ call.numerical_score # None
    /\ call.semantic_weight # Zero
    /\ FAdd(call.semantic_weight, call.numerical_weight) = Zero
    /\ call.semantic_score # Zero
    /\ ret = call.semantic_score

\* the features of a pair of rows of which both sides are present
Comparable(user_row, property_row) ==
    {f \in {<<"Budget", "Price">>, <<"Bedrooms", "Bedrooms">>, <<"Bathrooms", "Bathrooms">>,
             <<"Living Area (sq ft)", "Living Area (sq ft)">>} :
        _get_value(user_row, f[1]) # None /\ _get_value(property_row, f[2]) # None}

\* C7: compute_numerical_similarity returns None iff no feature has both
\* sides present; otherwise it returns 100 times the mean of exactly the
\* defined feature scores, rounded to 2 decimals, and that value is in
\* [0,100].
C7_NumericalSimilarityMeanInRange ==
    Returned("compute_numerical_similarity") =>
        LET scores == FeatureScores(call.user_row, call.property_row, BUDGET_TOLERANCE,
                                    BEDROOM_FLEX, BATHROOM_FLEX, LIVING_AREA_TOLERANCE)
            comparable == Comparable(call.user_row, call.property_row)
        IN  /\ (ret = None) <=> (comparable = {})
            /\ Len(scores) = Cardinality(comparable)
            /\ ret # None =>
                  /\ ret = Round2(FDiv(FMul(Hundred, FSum(scores)), Float(Len(scores), 1)))
                  /\ InRange(ret, Zero, Hundred)

\* the weighted average of a semantic score and a numerical score of 0
AverageWithZero(semantic_score, semantic_weight, numerical_weight) ==
    FDiv(FMul(semantic_score, semantic_weight), FAdd(semantic_weight, numerical_weight))

AllZero(scores) == scores # <<>> /\ \A i \in 1..Len(scores) : scores[i] = Zero

\* C8 as stated: a pair whose comparable features all score 0.0 gets 0 (not
\* None), and compute_similarity with numerical score 0 and positive weights
\* returns the (rounded) weighted average, which differs from the result for
\* None, the semantic score, whenever semantic is non-zero.
C8_ZeroDiffersFromNone ==
    /\ Returned("compute_numerical_similarity") =>
          (AllZero(FeatureScores(call.user_row, call.property_row, BUDGET_TOLERANCE,
                                 BEDROOM_FLEX, BATHROOM_FLEX, LIVING_AREA_TOLERANCE))
           => ret = Zero /\ ret # None)
    /\ (/\ Returned("compute_similarity")
        /\ call.numerical_score = Zero
        /\ FGt(call.semantic_weight, Zero)
        /\ FGt(call.numerical_weight, Zero))
       => /\ ret = Round2(AverageWithZero(call.semantic_score, call.semantic_weight, call.numerical_weight))
          /\ call.semantic_score # Zero => ret # call.semantic_score

\* C8 amended: as C8, but the returned average is rounded to 2 decimals and
\* differs from the semantic score whenever the average itself is at least
\* 0.01 (one rounding step) away from it.
C8_ZeroDiffersFromNoneBeyondRounding ==
    /\ Returned("compute_numerical_similarity") =>
          (AllZero(FeatureScores(call.user_row, call.property_row, BUDGET_TOLERANCE,
                                 BEDROOM_FLEX, BATHROOM_FLEX, LIVING_AREA_TOLERANCE))
           => ret = Zero /\ ret # None)
    /\ (/\ Returned("compute_similarity")
        /\ call.numerical_score = Zero
        /\ FGt(call.semantic_weight, Zero)
        /\ FGt(call.numerical_weight, Zero))
       => LET average == AverageWithZero(call.semantic_score, call.semantic_weight, call.numerical_weight)
          IN  /\ ret = Round2(average)
              /\ FGe(FAbs(FSub(call.semantic_score, average)), Float(1, 100))
                    => ret # call.semantic_score

\* a call with numerical score 0, positive weights and a semantic score of
\* 80 has returned something other than 80
C8_Witness ==
    /\ Returned("compute_similarity")
    /\ call.numerical_score = Zero
    /\ call.semantic_score = Float(80, 1)
    /\ call.semantic_weight = SEMANTIC_WEIGHT
    /\ call.numerical_weight = NUMERICAL_WEIGHT
    /\ ret = Float(56, 1)

TolerancePositive(call_) ==
    /\ call_.target # None
    /\ call_.actual # None
    /\ call_.tolerance # None
    /\ FGt(call_.tolerance, Zero)

\* C9: for target and actual both present and tolerance > 0,
\* _tolerance_score(target, actual, tolerance) is in [0,1].
C9_ToleranceScoreInUnitInterval ==
    (Returned("_tolerance_score") /\ TolerancePositive(call))
    => InRange(ret, Zero, One)

C11_FlexScoreThreeValued ==
    (/\ Returned("_flex_match_score")
     /\ call.preferred # None
     /\ call.actual # None)
    => LET diff == FAbs(FSub(call.actual, call.preferred))
       IN  /\ diff = Zero => ret = One
           /\ (/\ call.flexibility # None
               /\ FLt(Zero, diff)
               /\ FLe(diff, call.flexibility)) => ret = Float(7, 10)
           /\ (call.flexibility # None /\ FGt(diff, call.flexibility)) => ret = Zero
           /\ ret \in {Zero, Float(7, 10), One}

\* C11 amended: as C11, but 0.0 is returned when |actual - preferred| >
\* flexibility and |actual - preferred| > 0: a difference of 0 scores 1.0
\* even under a negative flexibility.
C11_FlexScoreThreeValuedNonZero ==
    (/\ Returned("_flex_match_score")
     /\ call.preferred # None
     /\ call.actual # None)
    => LET diff == FAbs(FSub(call.actual, call.preferred))
       IN  /\ diff = Zero => ret = One
           /\ (/\ call.flexibility # None
               /\ FLt(Zero, diff)
               /\ FLe(diff, call.flexibility)) => ret = Float(7, 10)
           /\ (/\ call.flexibility # None
               /\ FLt(Zero, diff)
               /\ FGt(diff, call.flexibility)) => ret = Zero
           /\ ret \in {Zero, Float(7, 10), One}

\* a call whose difference is exactly the flexibility has returned 0.7
C11_Witness ==
    /\ Returned("_flex_match_score")
    /\ call.preferred = Float(3, 1)
    /\ call.actual = Float(4, 1)
    /\ call.flexibility = One
    /\ ret = Float(7, 10)

\* the cell of a column of a row, a missing column being a missing value
CellOf(row, key) == IF key \in DOMAIN row THEN row[key] ELSE NoneCell

\* a value that is missing, blank or not convertible to a finite real number
Absent(cell) == cell.k \in {"None", "blank", "text", "nan", "inf"}

Features ==
    {<<"Budget", "Price">>, <<"Bedrooms", "Bedrooms">>, <<"Bathrooms", "Bathrooms">>,
     <<"Living Area (sq ft)", "Living Area (sq ft)">>}

\* C12: an attribute value that is missing, blank or not convertible to a
\* finite real number (NaN and infinite values included) is read as None by
\* _get_value, nothing is raised, and its feature is left out of the mean:
\* compute_numerical_similarity completes for every pair of rows.
C12_TolerantParse ==
    Returned("compute_numerical_similarity") =>
        /\ ~Raised(ret)
        /\ \A f \in Features :
              /\ Absent(CellOf(call.user_row, f[1])) => _get_value(call.user_row, f[1]) = None
              /\ Absent(CellOf(call.property_row, f[2])) => _get_value(call.property_row, f[2]) = None
        /\ Len(FeatureScores(call.user_row, call.property_row, BUDGET_TOLERANCE,
                             BEDROOM_FLEX, BATHROOM_FLEX, LIVING_AREA_TOLERANCE))
              = Cardinality({f \in Features : /\ ~Absent(CellOf(call.user_row, f[1]))
                                               /\ ~Absent(CellOf(call.property_row, f[2]))})

====
